---- MODULE Spec2Model ----
(***************************************************************************)
(* Model of src/renderer/cursor_renderer.rs: the blink scheduler           *)
(* (BlinkStatus), the corner animator (Corner), the shape geometry         *)
(* (CursorRenderer::set_cursor_shape) and the per-frame orchestration      *)
(* (CursorRenderer::draw) with the lock-guarded editor grid and the canvas.*)
(*                                                                         *)
(* f32 values are fixed-point integers: Unit stands for 1.0, every         *)
(* multiplication and division rounds to the nearest multiple of 1/Unit.   *)
(* Instants and durations are whole milliseconds; a call of update_status  *)
(* completes within one clock unit, so its reads of Instant::now() agree.  *)
(* Option<T> is a sequence of length at most one.                          *)
(***************************************************************************)
EXTENDS Integers, Sequences, FiniteSets, TLC

\* ------------------------------------------------------------------ bounds

\* The clock stops advancing at MaxTime milliseconds.
MaxTime == 6
\* Blink durations fed to the scheduler range over 0..MaxMillis.
MaxMillis == 2
\* draw is called at most MaxFrames times.
MaxFrames == 2
\* While draw is being called the clock stops advancing at MaxDrawTime.
MaxDrawTime == 2

\* ------------------------------------------------------------ Option<T>

None == << >>
Some(v) == << v >>
is_some(o) == o # None
is_none(o) == o = None
unwrap(o) == o[1]
unwrap_or(o, d) == IF o = None THEN d ELSE o[1]

\* ------------------------------------------------- f32 as fixed point

\* 1.0
Unit == 4000

\* a / b rounded to the nearest integer, halves away from zero (b > 0)
RDiv(a, b) ==
    IF a >= 0 THEN (2 * a + b) \div (2 * b)
              ELSE 0 - ((2 * (0 - a) + b) \div (2 * b))

\* f32 product and quotient
FMul(a, b) == RDiv(a * b, Unit)
FDiv(a, b) == RDiv(a * Unit, b)

Abs(v) == IF v < 0 THEN 0 - v ELSE v

\* Newton's iteration downward from x >= sqrt(n): the floor of sqrt(n)
RECURSIVE Newton(_, _)
Newton(n, x) ==
    LET y == (x + n \div x) \div 2
    IN IF y >= x THEN x ELSE Newton(n, y)

\* square root rounded to the nearest integer, for 0 <= n <= guess * guess
ISqrt(n, guess) ==
    IF n = 0 THEN 0
    ELSE LET s == Newton(n, guess)
         IN IF n - s * s > s THEN s + 1 ELSE s

\* skia Point and its operations
Pt(px, py) == [x |-> px, y |-> py]
PtAdd(a, b) == Pt(a.x + b.x, a.y + b.y)
PtSub(a, b) == Pt(a.x - b.x, a.y - b.y)
PtScale(a, k) == Pt(FMul(a.x, k), FMul(a.y, k))
PtDot(a, b) == FMul(a.x, b.x) + FMul(a.y, b.y)
PtLength(a) == ISqrt(a.x * a.x + a.y * a.y, Abs(a.x) + Abs(a.y))
PtIsZero(a) == a.x = 0 /\ a.y = 0
\* a.length() > e for e >= 0, decided exactly on the squares
PtLengthExceeds(a, e) == a.x * a.x + a.y * a.y > e * e

\* ------------------------------------------------------- program constants

AVERAGE_MOTION_PERCENTAGE == (7 * Unit) \div 10
MOTION_PERCENTAGE_SPREAD == Unit \div 2
DEFAULT_CELL_PERCENTAGE == Unit \div 8
\* the 0.001 of Corner::update
EPSILON == Unit \div 1000

Half == Unit \div 2

STANDARD_CORNERS ==
    << Pt(0 - Half, 0 - Half), Pt(Half, 0 - Half), Pt(Half, Half), Pt(0 - Half, Half) >>

CursorShape == {"Block", "Vertical", "Horizontal"}
BlinkState == {"Waiting", "On", "Off"}

\* ------------------------------------------------------------------ state

VARIABLES
    blink_status,      \* BlinkStatus: state, last_transition, previous_cursor
    corners,           \* CursorRenderer.corners: four Corner records
    now,               \* the monotonic clock, in milliseconds
    pc,                \* position of the render loop inside draw
    cursor,            \* draw's (or update_status's) cursor argument
    font_dimensions,   \* draw's font_width, font_height
    render,            \* the value update_status returned
    corner_animating,  \* what Corner::update returned for each corner
    animating,         \* draw's local, its return value
    character,         \* the character fetched from the grid
    lock,              \* holder of the editor mutex: "free", "renderer", "editor"
    poisoned,          \* the editor mutex is poisoned
    grid,              \* Editor.grid, grid[row][column]
    canvas,            \* calls issued to the canvas in the current frame
    locks,             \* times the render loop took the mutex in the current frame
    frames             \* number of draw calls started

vars == << blink_status, corners, now, pc, cursor, font_dimensions, render,
           corner_animating, animating, character, lock, poisoned, grid,
           canvas, locks, frames >>

\* ---------------------------------------------------------- BlinkStatus

BlinkStatus_new ==
    [state |-> "Waiting", last_transition |-> 0, previous_cursor |-> None]

\* update_status: the state a changed snapshot resets the scheduler to
reset_state_always_waiting(new_cursor) == "Waiting"
reset_state(new_cursor) ==
    IF is_some(new_cursor.blinkwait) /\ new_cursor.blinkwait # Some(0)
    THEN "Waiting" ELSE "On"

\* update_status: the test that returns true at once
HasZeroDuration_without_blinkon(c) ==
    c.blinkwait = Some(0) \/ c.blinkoff = Some(0)
HasZeroDuration(c) ==
    c.blinkwait = Some(0) \/ c.blinkoff = Some(0) \/ c.blinkon = Some(0)

\* update_status: the duration that governs a state, None when it never expires
delay_of_off_by_blinkon(state, new_cursor) ==
    LET chosen == CASE state = "Waiting" -> new_cursor.blinkwait
                    [] state = "Off" -> new_cursor.blinkon
                    [] state = "On" -> new_cursor.blinkon
    IN IF is_some(chosen) /\ unwrap(chosen) > 0 THEN chosen ELSE None
delay_of(state, new_cursor) ==
    LET chosen == CASE state = "Waiting" -> new_cursor.blinkwait
                    [] state = "Off" -> new_cursor.blinkoff
                    [] state = "On" -> new_cursor.blinkon
    IN IF is_some(chosen) /\ unwrap(chosen) > 0 THEN chosen ELSE None

\* update_status: the state an expired delay leads to
next_state_off_stays_off(state) ==
    CASE state = "Waiting" -> "On"
      [] state = "On" -> "Off"
      [] state = "Off" -> "Off"
next_state_off_to_waiting(state) ==
    CASE state = "Waiting" -> "On"
      [] state = "On" -> "Off"
      [] state = "Off" -> "Waiting"
next_state(state) ==
    CASE state = "Waiting" -> "On"
      [] state = "On" -> "Off"
      [] state = "Off" -> "On"

\* update_status: the value returned for a state
visible_in_waiting_too(state) ==
    CASE state \in {"Waiting", "On"} -> TRUE
      [] state = "Off" -> FALSE
visible_in(state) ==
    CASE state \in {"Waiting", "Off"} -> FALSE
      [] state = "On" -> TRUE

\* BlinkStatus::update_status at instant t (every Instant::now() of the call
\* reads t): the status left behind and the value returned.
update_status(bs, new_cursor, t) ==
    LET changed == is_none(bs.previous_cursor)
                     \/ new_cursor # unwrap(bs.previous_cursor)
        s1 == IF changed
              THEN [previous_cursor |-> Some(new_cursor),
                    last_transition |-> t,
                    state |-> reset_state(new_cursor)]
              ELSE bs
    IN IF HasZeroDuration(new_cursor)
       THEN [status |-> s1, ret |-> TRUE]
       ELSE LET delay == delay_of(s1.state, new_cursor)
                expired == IF is_some(delay)
                           THEN t - s1.last_transition > unwrap(delay)
                           ELSE FALSE
                s2 == IF expired
                      THEN [s1 EXCEPT !.state = next_state(s1.state),
                                      !.last_transition = t]
                      ELSE s1
            IN [status |-> s2, ret |-> visible_in(s2.state)]

\* --------------------------------------------------------------- Corner

Corner_new(relative_position) ==
    [current_position |-> Pt(0, 0), relative_position |-> relative_position]

\* Corner::update: the position after the jump toward the destination
advance_away(current_position, delta, motion_percentage) ==
    PtSub(current_position, PtScale(delta, motion_percentage))
advance(current_position, delta, motion_percentage) ==
    PtAdd(current_position, PtScale(delta, motion_percentage))

\* Corner::update: the corner left behind and the value returned.
Corner_update(corner, fd, destination) ==
    LET relative_scaled_position ==
            Pt(FMul(corner.relative_position.x, fd.x),
               FMul(corner.relative_position.y, fd.y))
        corner_destination == PtAdd(destination, relative_scaled_position)
        delta == PtSub(corner_destination, corner.current_position)
        motion_scale ==
            FDiv(FDiv(PtDot(delta, relative_scaled_position), PtLength(delta)),
                 PtLength(fd))
        motion_percentage ==
            FMul(motion_scale, MOTION_PERCENTAGE_SPREAD) + AVERAGE_MOTION_PERCENTAGE
        delta2 == PtSub(corner_destination, corner.current_position)
    IN [corner |-> IF PtLengthExceeds(delta, 0)
                   THEN [corner EXCEPT !.current_position =
                            advance(corner.current_position, delta2,
                                    motion_percentage)]
                   ELSE corner,
        ret |-> PtLengthExceeds(delta, EPSILON)]

\* ------------------------------------------------------- CursorRenderer

\* set_cursor_shape with the Horizontal bar left at the top of the cell
set_cursor_shape_top_bar(cs, cursor_shape, cell_percentage) ==
    [i \in 1..Len(cs) |->
        LET x == STANDARD_CORNERS[i].x
            y == STANDARD_CORNERS[i].y
        IN [cs[i] EXCEPT !.relative_position =
              CASE cursor_shape = "Block" -> Pt(x, y)
                [] cursor_shape = "Vertical" ->
                     Pt(FMul(x + Half, cell_percentage) - Half, y)
                [] cursor_shape = "Horizontal" ->
                     Pt(x, FMul(y + Half, cell_percentage) - Half)]]

\* set_cursor_shape building each corner anew instead of from the old one
set_cursor_shape_fresh_corners(cs, cursor_shape, cell_percentage) ==
    [i \in 1..Len(cs) |->
        LET x == STANDARD_CORNERS[i].x
            y == STANDARD_CORNERS[i].y
        IN Corner_new(
              CASE cursor_shape = "Block" -> Pt(x, y)
                [] cursor_shape = "Vertical" ->
                     Pt(FMul(x + Half, cell_percentage) - Half, y)
                [] cursor_shape = "Horizontal" ->
                     Pt(x, 0 - (FMul((0 - y) + Half, cell_percentage) - Half)))]

\* CursorRenderer::set_cursor_shape: the new corners vector.
set_cursor_shape(cs, cursor_shape, cell_percentage) ==
    [i \in 1..Len(cs) |->
        LET x == STANDARD_CORNERS[i].x
            y == STANDARD_CORNERS[i].y
        IN [cs[i] EXCEPT !.relative_position =
              CASE cursor_shape = "Block" -> Pt(x, y)
                [] cursor_shape = "Vertical" ->
                     Pt(FMul(x + Half, cell_percentage) - Half, y)
                [] cursor_shape = "Horizontal" ->
                     Pt(x, 0 - (FMul((0 - y) + Half, cell_percentage) - Half))]]

\* CursorRenderer::new: the corners of a new renderer.
CursorRenderer_new ==
    set_cursor_shape([i \in 1..4 |-> Corner_new(Pt(0, 0))], "Block",
                     DEFAULT_CELL_PERCENTAGE)

\* draw: the top-left and the center of the destination cell.
Destination(c, fd) == Pt(c.position[1] * fd.x, c.position[2] * fd.y)
CenterDestination(c, fd) == PtAdd(Destination(c, fd), PtScale(fd, Half))

\* draw: the loop over the corners; the corners, the per-corner flags and the
\* local animating it leaves.
animate_corners_first_flag(cs, fd, center_destination) ==
    LET upd == [i \in 1..Len(cs) |-> Corner_update(cs[i], fd, center_destination)]
        go == ~PtIsZero(center_destination)
        flags == [i \in 1..Len(cs) |-> IF go THEN upd[i].ret ELSE FALSE]
    IN [corners |-> IF go THEN [i \in 1..Len(cs) |-> upd[i].corner] ELSE cs,
        flags |-> flags,
        animating |-> flags[1]]
animate_corners(cs, fd, center_destination) ==
    LET upd == [i \in 1..Len(cs) |-> Corner_update(cs[i], fd, center_destination)]
        go == ~PtIsZero(center_destination)
        flags == [i \in 1..Len(cs) |-> IF go THEN upd[i].ret ELSE FALSE]
    IN [corners |-> IF go THEN [i \in 1..Len(cs) |-> upd[i].corner] ELSE cs,
        flags |-> flags,
        animating |-> \E i \in 1..Len(cs) : flags[i]]

\* draw: the path through the four corners.
Path == [i \in 1..4 |-> corners[i].current_position]

\* One call issued to the canvas; locked tells whether the render loop held
\* the editor mutex when it issued the call.
CanvasCall(op, arg) == [op |-> op, arg |-> arg, locked |-> lock = "renderer"]

\* ----------------------------------------------------------------- inputs

Cursor(position, shape, cell_percentage, blinkwait, blinkon, blinkoff, enabled) ==
    [position |-> position, shape |-> shape, cell_percentage |-> cell_percentage,
     blinkwait |-> blinkwait, blinkon |-> blinkon, blinkoff |-> blinkoff,
     enabled |-> enabled]

\* the value of the cursor variable before the first call
NoCursor == Cursor(<< 0, 0 >>, "Block", None, None, None, None, FALSE)

Durations == {None} \cup {Some(m) : m \in 0..MaxMillis}

\* snapshots fed to the blink scheduler alone
BlinkCursors ==
    {Cursor(p, "Block", None, w, n, f, TRUE) :
        p \in {<< 0, 0 >>, << 1, 0 >>}, w \in Durations, n \in Durations,
        f \in Durations}

\* snapshots fed to draw
DrawBlinks ==
    { << None, None, None >>, << Some(0), Some(1), Some(1) >>,
      << Some(1), Some(1), Some(1) >> }
DrawGeometries ==
    { << << 0, 0 >>, "Block", None >>, << << 1, 0 >>, "Vertical", None >>,
      << << 1, 0 >>, "Horizontal", Some(Unit \div 4) >> }
DrawCursors ==
    {Cursor(g[1], g[2], g[3], b[1], b[2], b[3], e) :
        g \in DrawGeometries, b \in DrawBlinks, e \in BOOLEAN}
DrawFonts == {Pt(Unit, 2 * Unit)}
\* draw called with a cell that measures nothing: the one cell size that puts
\* the center destination at the origin
ZeroCell == Pt(0, 0)
ZeroCellCursors ==
    {Cursor(<< 0, 0 >>, "Block", None, None, None, None, e) : e \in BOOLEAN}
\* the pairs of snapshot and cell size fed to draw
DrawInputs ==
    (DrawCursors \X DrawFonts) \cup (ZeroCellCursors \X {ZeroCell})

\* shapes and ratios fed to set_cursor_shape
ShapeCursors ==
    {Cursor(<< 0, 0 >>, s, cp, None, None, None, TRUE) :
        s \in CursorShape,
        cp \in {None, Some(1), Some(Unit \div 4), Some(Unit \div 2), Some(Unit)}}

\* targets of the corner animator
CornerCursors ==
    {Cursor(p, s, cp, None, None, None, TRUE) :
        p \in {<< 0, 0 >>, << 1, 0 >>, << 2, 1 >>}, s \in CursorShape,
        cp \in {None, Some(Unit \div 2)}}
CornerFonts == {Pt(Unit, 2 * Unit), Pt(2 * Unit, Unit)}

\* the corners of a renderer at rest over cursor c
RestingCorners(c, fd) ==
    LET shaped == set_cursor_shape(CursorRenderer_new, c.shape,
                                   unwrap_or(c.cell_percentage, DEFAULT_CELL_PERCENTAGE))
    IN [i \in 1..4 |->
          [shaped[i] EXCEPT !.current_position =
             PtAdd(CenterDestination(c, fd),
                   Pt(FMul(shaped[i].relative_position.x, fd.x),
                      FMul(shaped[i].relative_position.y, fd.y)))]]

\* the editor grids
GridIdx == 0..1
EmptyGrid == [r \in GridIdx |-> [c \in GridIdx |-> None]]
FullGrid == [r \in GridIdx |-> [c \in GridIdx |-> Some(<< 2 * r + c + 1, 0 >>)]]
Grids == {EmptyGrid, FullGrid}
\* the space character
Space == 0

\* ------------------------------------------------------------ initial state

\* CursorRenderer::new, the editor unlocked, the render loop outside draw
Init ==
    /\ blink_status = BlinkStatus_new
    /\ corners = CursorRenderer_new
    /\ now = 0
    /\ pc = "idle"
    /\ cursor = NoCursor
    /\ font_dimensions = Pt(Unit, 2 * Unit)
    /\ render = FALSE
    /\ corner_animating = [i \in 1..4 |-> FALSE]
    /\ animating = FALSE
    /\ character = None
    /\ lock = "free"
    /\ poisoned = FALSE
    /\ grid \in Grids
    /\ canvas = << >>
    /\ locks = 0
    /\ frames = 0

\* ------------------------------------------------------------------ clock

\* One millisecond passes. The clock is read only at the start of draw, so
\* time that passes inside a frame is time that passes before the next one.
Tick ==
    /\ pc = "idle"
    /\ now < MaxTime
    /\ now' = now + 1
    /\ UNCHANGED << blink_status, corners, pc, cursor, font_dimensions, render,
                    corner_animating, animating, character, lock, poisoned,
                    grid, canvas, frames, locks >>

\* ------------------------------------------------------ the blink scheduler

\* One call of BlinkStatus::update_status with snapshot c.
UpdateStatus(c) ==
    LET us == update_status(blink_status, c, now)
    IN /\ blink_status' = us.status
       /\ render' = us.ret
       /\ cursor' = c
       /\ UNCHANGED << corners, now, pc, font_dimensions, corner_animating,
                       animating, character, lock, poisoned, grid, canvas,
                       frames, locks >>

BlinkUpdate == \E c \in BlinkCursors : UpdateStatus(c)

NextBlink == Tick \/ BlinkUpdate

SpecBlink == Init /\ [][NextBlink]_vars

\* ------------------------------------------------------------------ draw

\* draw returning at once for a disabled cursor
DrawBegin_disabled_returns_early(c, fd) ==
    LET us == update_status(blink_status, c, now)
        shaped == set_cursor_shape(corners, c.shape,
                      unwrap_or(c.cell_percentage, DEFAULT_CELL_PERCENTAGE))
        a == animate_corners(shaped, fd, CenterDestination(c, fd))
    IN /\ pc = "idle"
       /\ frames < MaxFrames
       /\ frames' = frames + 1
       /\ cursor' = c
       /\ font_dimensions' = fd
       /\ blink_status' = IF c.enabled THEN us.status ELSE blink_status
       /\ render' = (c.enabled /\ us.ret)
       /\ corners' = IF c.enabled THEN a.corners ELSE corners
       /\ corner_animating' =
             IF c.enabled THEN a.flags ELSE [i \in 1..4 |-> FALSE]
       /\ animating' = (c.enabled /\ a.animating)
       /\ canvas' = << >>
       /\ character' = None
       /\ pc' = IF c.enabled /\ us.ret THEN "draw_path" ELSE "return"
       /\ locks' = 0
       /\ UNCHANGED << now, lock, poisoned, grid >>

\* draw up to the test of cursor.enabled && render: the blink scheduler is
\* fed, the shape geometry recomputed, the corners animated.
DrawBegin(c, fd) ==
    LET us == update_status(blink_status, c, now)
        shaped == set_cursor_shape(corners, c.shape,
                      unwrap_or(c.cell_percentage, DEFAULT_CELL_PERCENTAGE))
        a == animate_corners(shaped, fd, CenterDestination(c, fd))
    IN /\ pc = "idle"
       /\ frames < MaxFrames
       /\ frames' = frames + 1
       /\ cursor' = c
       /\ font_dimensions' = fd
       /\ blink_status' = us.status
       /\ render' = us.ret
       /\ corners' = a.corners
       /\ corner_animating' = a.flags
       /\ animating' = a.animating
       /\ canvas' = << >>
       /\ character' = None
       /\ pc' = IF c.enabled /\ us.ret THEN "draw_path" ELSE "return"
       /\ locks' = 0
       /\ UNCHANGED << now, lock, poisoned, grid >>

Draw == \E in \in DrawInputs : DrawBegin(in[1], in[2])

\* canvas.draw_path(&path, &paint)
DrawPath ==
    /\ pc = "draw_path"
    /\ canvas' = Append(canvas, CanvasCall("draw_path", Path))
    /\ pc' = "lock"
    /\ UNCHANGED << blink_status, corners, now, cursor, font_dimensions, render,
                    corner_animating, animating, character, lock, poisoned,
                    grid, frames, locks >>

\* editor.lock().unwrap(): waits while the editor holds the mutex, panics
\* when the mutex is poisoned
LockGrid ==
    /\ pc = "lock"
    /\ lock = "free"
    /\ IF poisoned
       THEN pc' = "panicked" /\ lock' = lock /\ locks' = locks
       ELSE pc' = "fetch" /\ lock' = "renderer" /\ locks' = locks + 1
    /\ UNCHANGED << blink_status, corners, now, cursor, font_dimensions, render,
                    corner_animating, animating, character, poisoned, grid,
                    canvas, frames >>

\* the character fetched with the two indices exchanged
FetchCharacter_transposed ==
    LET cursor_grid_y == cursor.position[1]
        cursor_grid_x == cursor.position[2]
        cell == grid[cursor_grid_y][cursor_grid_x]
    IN /\ pc = "fetch"
       /\ character' = Some(IF is_some(cell) THEN unwrap(cell)[1] ELSE Space)
       /\ pc' = "save"
       /\ UNCHANGED << blink_status, corners, now, cursor, font_dimensions,
                       render, corner_animating, animating, lock, poisoned,
                       grid, canvas, frames, locks >>

\* editor.grid[cursor_grid_x][cursor_grid_y], a space when the cell is empty,
\* where (cursor_grid_y, cursor_grid_x) = cursor.position
FetchCharacter ==
    LET cursor_grid_y == cursor.position[1]
        cursor_grid_x == cursor.position[2]
        cell == grid[cursor_grid_x][cursor_grid_y]
    IN /\ pc = "fetch"
       /\ character' = Some(IF is_some(cell) THEN unwrap(cell)[1] ELSE Space)
       /\ pc' = "save"
       /\ UNCHANGED << blink_status, corners, now, cursor, font_dimensions,
                       render, corner_animating, animating, lock, poisoned,
                       grid, canvas, frames, locks >>

\* canvas.save()
CanvasSave ==
    /\ pc = "save"
    /\ canvas' = Append(canvas, CanvasCall("save", << >>))
    /\ pc' = "clip_path"
    /\ UNCHANGED << blink_status, corners, now, cursor, font_dimensions, render,
                    corner_animating, animating, character, lock, poisoned,
                    grid, frames, locks >>

\* draw going on to the glyph without clipping
ClipPath_omitted ==
    /\ pc = "clip_path"
    /\ pc' = "draw_text_blob"
    /\ UNCHANGED << blink_status, corners, now, cursor, font_dimensions, render,
                    corner_animating, animating, character, lock, poisoned,
                    grid, canvas, frames, locks >>

\* canvas.clip_path(&path, None, Some(false))
ClipPath ==
    /\ pc = "clip_path"
    /\ canvas' = Append(canvas, CanvasCall("clip_path", Path))
    /\ pc' = "draw_text_blob"
    /\ UNCHANGED << blink_status, corners, now, cursor, font_dimensions, render,
                    corner_animating, animating, character, lock, poisoned,
                    grid, frames, locks >>

\* canvas.draw_text_blob(shape_cached(character), destination, &paint)
DrawTextBlob ==
    /\ pc = "draw_text_blob"
    /\ canvas' = Append(canvas,
                   CanvasCall("draw_text_blob",
                              << unwrap(character),
                                 Destination(cursor, font_dimensions) >>))
    /\ pc' = "restore"
    /\ UNCHANGED << blink_status, corners, now, cursor, font_dimensions, render,
                    corner_animating, animating, character, lock, poisoned,
                    grid, frames, locks >>

\* canvas.restore()
CanvasRestore ==
    /\ pc = "restore"
    /\ canvas' = Append(canvas, CanvasCall("restore", << >>))
    /\ pc' = "end_if"
    /\ UNCHANGED << blink_status, corners, now, cursor, font_dimensions, render,
                    corner_animating, animating, character, lock, poisoned,
                    grid, frames, locks >>

\* the guard kept alive past the end of the block
EndIf_guard_leaked ==
    /\ pc = "end_if"
    /\ lock' = lock
    /\ pc' = "return"
    /\ UNCHANGED << blink_status, corners, now, cursor, font_dimensions, render,
                    corner_animating, animating, character, poisoned, grid,
                    canvas, locks, frames >>

\* the end of the if block: the mutex guard goes out of scope
EndIf ==
    /\ pc = "end_if"
    /\ lock' = "free"
    /\ pc' = "return"
    /\ UNCHANGED << blink_status, corners, now, cursor, font_dimensions, render,
                    corner_animating, animating, character, poisoned, grid,
                    canvas, locks, frames >>

\* draw returns animating
DrawReturn ==
    /\ pc = "return"
    /\ pc' = "idle"
    /\ UNCHANGED << blink_status, corners, now, cursor, font_dimensions, render,
                    corner_animating, animating, character, lock, poisoned,
                    grid, canvas, frames, locks >>

\* ------------------------------------------- the editor side of the mutex

\* The editing session takes the mutex.
EditorLock ==
    /\ lock = "free"
    /\ ~poisoned
    /\ lock' = "editor"
    /\ UNCHANGED << blink_status, corners, now, pc, cursor, font_dimensions,
                    render, corner_animating, animating, character, poisoned,
                    grid, canvas, frames, locks >>

\* The editing session rewrites the grid while it holds the mutex.
EditorWrite ==
    /\ lock = "editor"
    /\ grid' \in Grids \ {grid}
    /\ UNCHANGED << blink_status, corners, now, pc, cursor, font_dimensions,
                    render, corner_animating, animating, character, lock,
                    poisoned, canvas, frames, locks >>

\* The editing session releases the mutex.
EditorUnlock ==
    /\ lock = "editor"
    /\ lock' = "free"
    /\ UNCHANGED << blink_status, corners, now, pc, cursor, font_dimensions,
                    render, corner_animating, animating, character, poisoned,
                    grid, canvas, frames, locks >>

\* The editing session panics while it holds the mutex: the mutex is released
\* poisoned and every later lock() fails.
EditorPanic ==
    /\ lock = "editor"
    /\ lock' = "free"
    /\ poisoned' = TRUE
    /\ UNCHANGED << blink_status, corners, now, pc, cursor, font_dimensions,
                    render, corner_animating, animating, character, grid,
                    canvas, locks, frames >>

\* One millisecond passes between two frames.
DrawTick == now < MaxDrawTime /\ Tick

Next ==
    \/ DrawTick
    \/ Draw
    \/ DrawPath
    \/ LockGrid
    \/ FetchCharacter
    \/ CanvasSave
    \/ ClipPath
    \/ DrawTextBlob
    \/ CanvasRestore
    \/ EndIf
    \/ DrawReturn
    \/ EditorLock
    \/ EditorWrite
    \/ EditorUnlock
    \/ EditorPanic

Spec == Init /\ [][Next]_vars

\* ------------------------------------------------------ the shape geometry

\* A new renderer, or one at rest over some cursor.
InitShape ==
    /\ blink_status = BlinkStatus_new
    /\ \/ /\ cursor = NoCursor
          /\ font_dimensions \in CornerFonts
          /\ corners = CursorRenderer_new
       \/ \E fd \in CornerFonts, c \in CornerCursors :
             /\ cursor = c
             /\ font_dimensions = fd
             /\ corners = RestingCorners(c, fd)
    /\ now = 0
    /\ pc = "idle"
    /\ render = FALSE
    /\ corner_animating = [i \in 1..4 |-> FALSE]
    /\ animating = FALSE
    /\ character = None
    /\ lock = "free"
    /\ poisoned = FALSE
    /\ grid = EmptyGrid
    /\ canvas = << >>
    /\ locks = 0
    /\ frames = 0

\* One call of set_cursor_shape, as draw makes it for snapshot c.
SetCursorShape(c) ==
    /\ cursor' = c
    /\ corners' = set_cursor_shape(corners, c.shape,
                      unwrap_or(c.cell_percentage, DEFAULT_CELL_PERCENTAGE))
    /\ UNCHANGED << blink_status, now, pc, font_dimensions, render,
                    corner_animating, animating, character, lock, poisoned,
                    grid, canvas, frames, locks >>

ShapeStep == \E c \in ShapeCursors : SetCursorShape(c)

NextShape == ShapeStep

SpecShape == InitShape /\ [][NextShape]_vars

\* ------------------------------------------------------ the corner animator

\* A renderer at rest anywhere, given a target that is then held fixed.
InitCorner ==
    /\ blink_status = BlinkStatus_new
    /\ \E fd \in CornerFonts, c \in CornerCursors :
         /\ font_dimensions = fd
         /\ cursor = c
         /\ \E start \in {CursorRenderer_new}
                           \cup {RestingCorners(from, fd) : from \in CornerCursors} :
              corners = set_cursor_shape(start, c.shape,
                            unwrap_or(c.cell_percentage, DEFAULT_CELL_PERCENTAGE))
    /\ now = 0
    /\ pc = "idle"
    /\ render = FALSE
    /\ corner_animating = [i \in 1..4 |-> FALSE]
    /\ animating = FALSE
    /\ character = None
    /\ lock = "free"
    /\ poisoned = FALSE
    /\ grid = EmptyGrid
    /\ canvas = << >>
    /\ locks = 0
    /\ frames = 0

\* draw's loop over the corners: Corner::update on each, target unchanged.
AnimateStep ==
    LET a == animate_corners(corners, font_dimensions,
                             CenterDestination(cursor, font_dimensions))
    IN /\ corners' = a.corners
       /\ corner_animating' = a.flags
       /\ animating' = a.animating
       /\ UNCHANGED << blink_status, now, pc, cursor, font_dimensions, render,
                       character, lock, poisoned, grid, canvas, frames, locks >>

NextCorner == AnimateStep

SpecCorner == InitCorner /\ [][NextCorner]_vars

\* ------------------------------------------------- claims: blink scheduler

\* the snapshot the scheduler saw last
Seen == blink_status.previous_cursor
\* the step is a call of update_status (the clock stands still during a call)
IsUpdateCall == now' = now
AnyZero(c) == \E d \in {c.blinkwait, c.blinkon, c.blinkoff} : d = Some(0)
AllPositive(c) ==
    \A d \in {c.blinkwait, c.blinkon, c.blinkoff} : is_some(d) /\ unwrap(d) > 0
WaitConfigured(c) == is_some(c.blinkwait) /\ unwrap(c.blinkwait) # 0

\* C1 (blink restart): an update call whose snapshot differs from the one seen
\* before, or that is the first, records the snapshot and leaves the scheduler
\* in Waiting when blink_wait is present and nonzero and in On otherwise; with
\* blink_wait absent or zero that call returns true.
C1_BlinkRestart ==
    [][ (IsUpdateCall /\ (is_none(Seen) \/ cursor' # unwrap(Seen))) =>
          /\ Seen' = Some(cursor')
          /\ blink_status'.state =
                IF WaitConfigured(cursor') THEN "Waiting" ELSE "On"
          /\ (~WaitConfigured(cursor') => render' = TRUE) ]_vars

\* a restart out of Off (or On) back into Waiting, after time has passed
C1_Witness ==
    /\ blink_status.state = "Waiting"
    /\ blink_status.last_transition > 0
    /\ blink_status.last_transition = now

\* C2 (zero-duration override): a call whose snapshot has a zero blink_wait,
\* blink_on or blink_off returns true, whatever the state and the time.
C2_ZeroOverride ==
    (is_some(Seen) /\ AnyZero(cursor)) => render = TRUE

\* a call that returned true in Waiting, long after the last transition
C2_Witness ==
    /\ is_some(Seen) /\ AnyZero(cursor) /\ render
    /\ cursor.blinkon = Some(0) /\ WaitConfigured(cursor)
    /\ blink_status.state = "Waiting"
    /\ now > blink_status.last_transition + unwrap(cursor.blinkwait)

\* C5: with all three durations positive, every update call made during the
\* Waiting period returns true (the cursor appears solid).
C5_SolidWhileWaiting ==
    (is_some(Seen) /\ AllPositive(cursor) /\ blink_status.state = "Waiting")
        => render = TRUE

\* C6: with no zero duration the value returned is true exactly when the
\* state at the end of the call is On.
C6_VisibleIffOn ==
    (is_some(Seen) /\ ~AnyZero(cursor)) => (render <=> blink_status.state = "On")

\* a call that returned false in Off
C6_Witness ==
    /\ is_some(Seen) /\ ~AnyZero(cursor)
    /\ blink_status.state = "Off" /\ render = FALSE

\* C7 (cycle monotonicity): a call fed the snapshot seen before (or the first
\* call) keeps the state or moves it along Waiting -> On -> Off -> On; it
\* never re-enters Waiting, and it returns false only in Waiting or Off.
C7_CycleMonotone ==
    [][ (IsUpdateCall /\ (is_none(Seen) \/ cursor' = unwrap(Seen))) =>
          /\ \/ blink_status'.state = blink_status.state
             \/ << blink_status.state, blink_status'.state >> \in
                   { << "Waiting", "On" >>, << "On", "Off" >>, << "Off", "On" >> }
          /\ (blink_status.state # "Waiting" => blink_status'.state # "Waiting")
          /\ (render' = FALSE => blink_status'.state \in {"Waiting", "Off"}) ]_vars

\* the second On period of one snapshot: Waiting, On and Off have all expired
C7_Witness ==
    /\ is_some(Seen) /\ cursor = unwrap(Seen)
    /\ cursor.blinkwait = Some(1) /\ cursor.blinkon = Some(1)
    /\ cursor.blinkoff = Some(1)
    /\ blink_status.state = "On" /\ blink_status.last_transition >= 6
    /\ render = TRUE

\* the duration the claims name as governing the state the scheduler is in
Governing(c) ==
    CASE blink_status.state = "Waiting" -> c.blinkwait
      [] blink_status.state = "On" -> c.blinkon
      [] blink_status.state = "Off" -> c.blinkoff
Elapsed == now - blink_status.last_transition

\* C12: a call fed the snapshot seen before, none of whose durations is zero,
\* changes the state only if the duration governing the current state is
\* present and positive and the time since the last transition strictly
\* exceeds it (so a state whose duration is absent is never left), and then
\* moves it one step only; and a call fed the snapshot seen before changes the
\* transition timestamp only when it changes the state, setting it to the
\* instant of the call.
C12_TransitionOnlyOnExpiry ==
    [][ (IsUpdateCall /\ is_some(Seen) /\ cursor' = unwrap(Seen)) =>
          /\ ~AnyZero(cursor') =>
                /\ blink_status'.state # blink_status.state =>
                      /\ is_some(Governing(cursor'))
                      /\ unwrap(Governing(cursor')) > 0
                      /\ Elapsed > unwrap(Governing(cursor'))
                      /\ << blink_status.state, blink_status'.state >> \in
                            { << "Waiting", "On" >>, << "On", "Off" >>,
                              << "Off", "On" >> }
                      /\ blink_status'.last_transition = now
                /\ is_none(Governing(cursor')) =>
                      blink_status'.state = blink_status.state
          /\ blink_status'.last_transition # blink_status.last_transition =>
                blink_status'.state # blink_status.state
          /\ Seen' = Seen ]_vars

\* Off entered by a transition out of On, itself entered out of Waiting, and
\* kept by a later call: blink_off is absent
C12_Witness ==
    /\ is_some(Seen) /\ cursor = unwrap(Seen)
    /\ cursor.blinkwait = Some(1) /\ cursor.blinkon = Some(2)
    /\ cursor.blinkoff = None
    /\ blink_status.state = "Off"
    /\ blink_status.last_transition >= 5
    /\ now > blink_status.last_transition
    /\ render = FALSE

\* ------------------------------------- the blink scheduler, run forever

\* snapshots whose three durations are present and positive
SteadyCursors == {c \in BlinkCursors : AllPositive(c)}

\* A new scheduler and the one snapshot it will be fed.
InitSteady ==
    /\ blink_status = BlinkStatus_new
    /\ cursor \in SteadyCursors
    /\ corners = CursorRenderer_new
    /\ now = 0
    /\ pc = "idle"
    /\ font_dimensions = Pt(Unit, 2 * Unit)
    /\ render = FALSE
    /\ corner_animating = [i \in 1..4 |-> FALSE]
    /\ animating = FALSE
    /\ character = None
    /\ lock = "free"
    /\ poisoned = FALSE
    /\ grid = EmptyGrid
    /\ canvas = << >>
    /\ locks = 0
    /\ frames = 0

\* One millisecond passes, without end. An Instant is known to the program
\* only by its distance from another Instant, so once the clock shows MaxTime
\* the origin of time moves forward instead: last_transition moves one
\* millisecond into the past. An elapsed time that has reached MaxTime stays
\* there; MaxTime exceeds every duration, so the comparison of update_status
\* comes out as it does on the elapsed time itself.
TickForever ==
    /\ IF now < MaxTime
       THEN /\ now' = now + 1
            /\ blink_status' = blink_status
       ELSE /\ now' = now
            /\ blink_status' =
                 [blink_status EXCEPT
                    !.last_transition = IF @ > 0 THEN @ - 1 ELSE 0]
    /\ UNCHANGED << corners, pc, cursor, font_dimensions, render,
                    corner_animating, animating, character, lock, poisoned,
                    grid, canvas, frames, locks >>

\* One more call of update_status with the same snapshot.
SteadyUpdate == UpdateStatus(cursor)

NextSteady == TickForever \/ SteadyUpdate

\* Time keeps passing and update_status keeps being called.
FairSpecBlink ==
    InitSteady /\ [][NextSteady]_vars
        /\ WF_vars(TickForever) /\ WF_vars(SteadyUpdate)

\* C19 (blink liveness): fed one snapshot whose three durations are present
\* and positive, called again and again while time passes without end, the
\* scheduler reaches On, and the value it returns is true again and again and
\* false again and again, for ever.
C19_BlinkLiveness ==
    /\ <>(blink_status.state = "On")
    /\ []<>(is_some(Seen) /\ render = TRUE)
    /\ []<>(is_some(Seen) /\ render = FALSE)

\* the scheduler has been through On and is in Off, where it has returned
\* false, long after the clock first showed MaxTime
C19_Witness ==
    /\ is_some(Seen) /\ AllPositive(cursor)
    /\ blink_status.state = "Off" /\ render = FALSE
    /\ now = MaxTime
    /\ blink_status.last_transition = 0

\* ------------------------------------------------- claims: corner animator

\* the target of corner i and the square of its distance from the corner
Target(i) ==
    PtAdd(CenterDestination(cursor, font_dimensions),
          Pt(FMul(corners[i].relative_position.x, font_dimensions.x),
             FMul(corners[i].relative_position.y, font_dimensions.y)))
DistSq(i) ==
    LET d == PtSub(Target(i), corners[i].current_position)
    IN d.x * d.x + d.y * d.y
\* the distance is below 0.001
Arrived(i) == DistSq(i) < EPSILON * EPSILON

\* the square of the distance of corner i after one more Corner::update
DistSqAfter(i) ==
    LET after == Corner_update(corners[i], font_dimensions,
                               CenterDestination(cursor, font_dimensions)).corner
        d == PtSub(Target(i), after.current_position)
    IN d.x * d.x + d.y * d.y

\* C8 (convergence): with the target held fixed no call of Corner::update
\* increases a corner's distance to its target; while the distance is not yet
\* below 0.001 the next call makes it strictly smaller, so repeated calls bring
\* it below 0.001; and a call made once it is below 0.001 returns false.
C8_Convergence ==
    /\ [][\A i \in 1..4 : DistSq(i)' <= DistSq(i)]_vars
    /\ [](\A i \in 1..4 : Arrived(i) \/ DistSqAfter(i) < DistSq(i))
    /\ [][\A i \in 1..4 : Arrived(i) => corner_animating'[i] = FALSE]_vars

\* all four corners have travelled from another cell and arrived, and the
\* call made after that returned false
C8_Witness ==
    /\ cursor.position = << 2, 1 >>
    /\ \A i \in 1..4 : Arrived(i) /\ corner_animating[i] = FALSE
    /\ ~animating
    /\ \E i \in 1..4 : corners[i].current_position # Target(i)

\* C11: the value Corner::update returns for a corner is true exactly when the
\* distance between the target and current_position after that call's advance
\* exceeds 0.001.
C11_ReportsResultingDistance ==
    [][\A i \in 1..4 :
          corner_animating'[i] = (DistSq(i)' > EPSILON * EPSILON)]_vars

\* ------------------------------------------------- claims: shape geometry

Rel(i) == corners[i].relative_position
Ratio == unwrap_or(cursor.cell_percentage, DEFAULT_CELL_PERCENTAGE)

\* C9 (shape geometry bounds): after set_cursor_shape with ratio p, Block has
\* the unit-square corners in order; Vertical keeps left x = -0.5 and has
\* right x = p - 0.5, y as in Block; Horizontal keeps bottom y = 0.5 and has
\* top y = 0.5 - p, x as in Block.
C9_ShapeGeometry ==
    LET xs == << Rel(1).x, Rel(2).x, Rel(3).x, Rel(4).x >>
        ys == << Rel(1).y, Rel(2).y, Rel(3).y, Rel(4).y >>
        bx == << 0 - Half, Half, Half, 0 - Half >>
        by == << 0 - Half, 0 - Half, Half, Half >>
    IN /\ Len(corners) = 4
       /\ cursor.shape = "Block" => xs = bx /\ ys = by
       /\ cursor.shape = "Vertical" =>
            /\ xs = << 0 - Half, Ratio - Half, Ratio - Half, 0 - Half >>
            /\ ys = by
            /\ Rel(2).x - Rel(1).x = Ratio
       /\ cursor.shape = "Horizontal" =>
            /\ xs = bx
            /\ ys = << Half - Ratio, Half - Ratio, Half, Half >>
            /\ Rel(3).y - Rel(2).y = Ratio

\* a quarter-height bar at the bottom of the cell, on corners away from the origin
C9_Witness ==
    /\ cursor.shape = "Horizontal" /\ cursor.cell_percentage = Some(Unit \div 4)
    /\ Rel(1).y = Unit \div 4 /\ Rel(3).y = Half
    /\ corners[1].current_position # Pt(0, 0)

\* C15: a call of set_cursor_shape, whatever the shape and the ratio, leaves
\* every corner's current_position as it was, corner by corner, and the
\* renderer holds exactly four corners in every state.
C15_ShapeKeepsPositions ==
    /\ [](Len(corners) = 4)
    /\ [][ /\ Len(corners') = Len(corners)
           /\ \A i \in 1..4 : corners'[i].current_position =
                                  corners[i].current_position ]_vars

\* a quarter-width bar set on corners that rest on four different points
C15_Witness ==
    /\ cursor.shape = "Vertical" /\ cursor.cell_percentage = Some(Unit \div 4)
    /\ Rel(2).x = (Unit \div 4) - Half
    /\ \A i, j \in 1..4 :
          i # j => corners[i].current_position # corners[j].current_position

\* ------------------------------------------------------- claims: draw

\* number of calls of op issued to the canvas in the current frame
Issued(op) == Cardinality({i \in 1..Len(canvas) : canvas[i].op = op})
\* the last draw call has returned, or has panicked
Returned == frames > 0 /\ pc = "idle"
Panicked == pc = "panicked"
\* the frame is one that draws
Drawing == cursor.enabled /\ render

\* C3: the render loop never holds the editor mutex at the moment it issues a
\* path fill or a glyph draw.
C3_NoLockAcrossDraw ==
    \A i \in 1..Len(canvas) :
        canvas[i].op \in {"draw_path", "draw_text_blob"} => ~canvas[i].locked

\* C4 (draw gating): a draw call that is over has issued no call to the canvas
\* when enabled is false or the scheduler reported not visible, and exactly one
\* path fill and exactly one glyph draw otherwise.
C4_DrawGating ==
    (Returned \/ Panicked) =>
        IF Drawing
        THEN Issued("draw_path") = 1 /\ Issued("draw_text_blob") = 1
        ELSE Len(canvas) = 0

\* the step is the start of a draw call
IsDrawCall == frames' = frames + 1
\* the cell has a positive width and a positive height
PositiveCell == font_dimensions.x > 0 /\ font_dimensions.y > 0
\* no corner has left the origin, where Corner::new put it
AtOrigin == \A i \in 1..4 : corners[i].current_position = Pt(0, 0)

\* C13: the first draw call of a new renderer, on a cell of positive width and
\* height, changes no corner's current_position.
C13_FirstFrameSkipsAnimation ==
    (frames = 1 /\ PositiveCell) => AtOrigin

\* what Corner::update makes of corner i, reshaped as the call reshapes it,
\* against the center destination of the call
UpdatedCorner(i) ==
    Corner_update([corners[i] EXCEPT
                      !.relative_position = corners'[i].relative_position],
                  font_dimensions',
                  CenterDestination(cursor', font_dimensions'))

\* C14: a draw call whose center destination is the origin changes no
\* corner's current_position and returns false; any other draw call leaves
\* each of the four corners as Corner::update leaves it against that one
\* center destination and returns the disjunction of the four values
\* Corner::update returned. The rest of the call changes neither.
C14_OriginSkipsElseUpdatesAll ==
    [][ /\ IsDrawCall =>
              IF PtIsZero(CenterDestination(cursor', font_dimensions'))
              THEN /\ \A i \in 1..4 : corners'[i].current_position =
                                          corners[i].current_position
                   /\ animating' = FALSE
              ELSE LET upd == [i \in 1..4 |-> UpdatedCorner(i)]
                   IN /\ \A i \in 1..4 : corners'[i] = upd[i].corner
                      /\ animating' = (\E i \in 1..4 : upd[i].ret)
        /\ ~IsDrawCall => animating' = animating /\ corners' = corners ]_vars

\* a second call, with the center destination at the origin, has returned
\* false and left the corners where the first call had moved them
C14_Witness ==
    /\ Returned /\ frames = 2
    /\ PtIsZero(CenterDestination(cursor, font_dimensions))
    /\ ~AtOrigin
    /\ animating = FALSE

\* the canvas calls of a frame that draws, in the order the claims give them
DrawingOps == << "draw_path", "save", "clip_path", "draw_text_blob", "restore" >>
\* the operations issued so far in the current frame
Ops == [i \in 1..Len(canvas) |-> canvas[i].op]
\* saves not yet restored after the first n calls of the frame
SaveDepth(n) ==
    Cardinality({i \in 1..n : canvas[i].op = "save"})
        - Cardinality({i \in 1..n : canvas[i].op = "restore"})
\* a clip installed within the first n calls is still in force after them
ClipActive(n) ==
    \E j \in 1..n :
        /\ canvas[j].op = "clip_path"
        /\ \E k \in 1..(j - 1) :
              /\ canvas[k].op = "save"
              /\ \A m \in (k + 1)..n : canvas[m].op # "restore"

\* C16: the canvas calls of a frame are issued in the order fill, save, clip,
\* glyph, restore; the clip is to the path that was filled; the glyph is drawn
\* only while that clip is in force; and when a draw call that draws has
\* returned, all five calls have been issued and every save has been restored.
C16_FillClipGlyphUnclip ==
    /\ Len(canvas) <= Len(DrawingOps)
    /\ Ops = SubSeq(DrawingOps, 1, Len(canvas))
    /\ \A i \in 1..Len(canvas) :
          /\ canvas[i].op = "clip_path" =>
                \E j \in 1..(i - 1) :
                    canvas[j].op = "draw_path" /\ canvas[j].arg = canvas[i].arg
          /\ canvas[i].op = "draw_text_blob" => ClipActive(i - 1)
          /\ SaveDepth(i) >= 0
    /\ Returned => SaveDepth(Len(canvas)) = 0
    /\ (Returned /\ Drawing) => Ops = DrawingOps

\* a frame that drew has returned: fill, clip, glyph and unclip were issued
\* on a path through four different points
C16_Witness ==
    /\ Returned /\ Drawing
    /\ Ops = DrawingOps
    /\ SaveDepth(Len(canvas)) = 0
    /\ canvas[3].arg = canvas[1].arg
    /\ \A i, j \in 1..4 : i # j => canvas[1].arg[i] # canvas[1].arg[j]

\* the character the grid holds at horizontal index a, vertical index b
CharAt(a, b) ==
    IF is_some(grid[b][a]) THEN unwrap(grid[b][a])[1] ELSE Space

\* C17: with cursor.position = (a, b), the character draw has fetched is the
\* one the grid holds at grid[b][a], a space when that cell is empty (the grid
\* cannot change while the render loop holds the mutex), and the glyph is
\* drawn with that character at (a * cell width, b * cell height).
C17_GlyphOfCursorCell ==
    LET a == cursor.position[1]
        b == cursor.position[2]
    IN /\ (lock = "renderer" /\ is_some(character)) =>
             unwrap(character) = CharAt(a, b)
       /\ \A i \in 1..Len(canvas) :
             canvas[i].op = "draw_text_blob" =>
                canvas[i].arg = << unwrap(character),
                                   Pt(a * font_dimensions.x,
                                      b * font_dimensions.y) >>

\* the glyph of cell (1, 0) has just been drawn one cell width to the right,
\* from a grid that holds another character at (0, 1)
C17_Witness ==
    /\ pc = "restore" /\ lock = "renderer"
    /\ cursor.position = << 1, 0 >>
    /\ grid = FullGrid
    /\ canvas[4].op = "draw_text_blob"
    /\ canvas[4].arg = << unwrap(grid[0][1])[1], Pt(Unit, 0) >>
    /\ grid[1][0] # grid[0][1]

\* C18: a draw call in which taking the editor mutex failed has issued
\* neither a path fill nor a glyph draw and has left no clip in force.
C18_LockFailureDrawsNothing ==
    Panicked =>
        /\ Issued("draw_path") = 0
        /\ Issued("draw_text_blob") = 0
        /\ ~ClipActive(Len(canvas))

\* C20: a draw call that draws nothing (cursor.enabled false, or the scheduler
\* reporting not visible) still feeds the snapshot to the blink scheduler and,
\* unless the center destination is the origin, moves the four corners with
\* Corner::update and returns the disjunction of its results; and no step of
\* a draw call after that, the drawing block included, changes the blink
\* status, a corner or the value to return. So the three come out the same
\* whether the frame is drawn or not.
C20_AdvancesWithoutDrawing ==
    [][ /\ (IsDrawCall /\ ~(cursor'.enabled /\ render')) =>
              LET us == update_status(blink_status, cursor', now)
                  upd == [i \in 1..4 |-> UpdatedCorner(i)]
              IN /\ blink_status' = us.status
                 /\ render' = us.ret
                 /\ ~PtIsZero(CenterDestination(cursor', font_dimensions')) =>
                       /\ \A i \in 1..4 :
                             corners'[i].current_position =
                                upd[i].corner.current_position
                       /\ animating' = (\E i \in 1..4 : upd[i].ret)
        /\ ~IsDrawCall =>
              /\ blink_status' = blink_status
              /\ corners' = corners
              /\ animating' = animating ]_vars

\* a second call for a disabled cursor has returned without drawing: it took
\* the scheduler from Waiting to On and it moved the corners
C20_Witness ==
    /\ Returned /\ frames = 2
    /\ ~cursor.enabled /\ render
    /\ Len(canvas) = 0
    /\ cursor.blinkwait = Some(1)
    /\ blink_status.state = "On" /\ blink_status.last_transition = now
    /\ ~AtOrigin /\ animating

\* C10: the render loop takes the editor mutex only inside the drawing block,
\* between the fill and the end of the block, at most once per draw call and
\* never in a frame that does not draw; once draw has returned it does not
\* hold the mutex.
C10_LockScoped ==
    /\ lock = "renderer" =>
          pc \in {"fetch", "save", "clip_path", "draw_text_blob", "restore",
                  "end_if"}
    /\ locks <= 1
    /\ ~Drawing => locks = 0
    /\ locks = 1 => character # None \/ pc = "fetch"
    /\ Returned => lock # "renderer"

\* a frame that drew has returned: the mutex was taken once and is free again
C10_Witness ==
    /\ Returned /\ Drawing
    /\ locks = 1 /\ lock = "free"
    /\ Issued("draw_text_blob") = 1
    /\ frames = 2

====
